---- MODULE Spec2Model ----
(***************************************************************************)
(* Query translation for semantic search: the reciprocal-rank-fusion       *)
(* engine and the fusion pipeline of src/models/fusion_rrf.py, and the     *)
(* question/answer formatting of src/models/decomposition_ltm.py.          *)
(*                                                                         *)
(* Texts (Python str) are sequences of one-character strings.  Scores      *)
(* (Python float) are exact rationals <<numerator, denominator>> in lowest *)
(* terms with a positive denominator.  A Document is a record of its       *)
(* fields plus oid, the identity of the Python object holding them.        *)
(***************************************************************************)
EXTENDS Integers, Sequences, FiniteSets, TLC

VARIABLES
    results,    \* reciprocal_rank_fusion: the argument `results`
    k,          \* reciprocal_rank_fusion: the argument `k`
    ret,        \* reciprocal_rank_fusion: how the last call ended
    op,         \* which call of reciprocal_rank_fusion was made last
    fpc,        \* FusionRetrieval.run: where the run is
    question,   \* FusionRetrieval.run: the question read from the user
    queries,    \* retrieve_documents: the output of generate_queries
    retrieved,  \* retrieve_documents: per query, the retriever's answer
    llm_calls,  \* the invocations of self.llm made so far, in order
    output,     \* FusionRetrieval.run: what was printed
    qa_questions,   \* format_qa_pairs: the argument `questions`
    qa_answers,     \* format_qa_pairs: the argument `answers`
    formatted,      \* format_qa_pairs: its return value, once called
    dpc,            \* DecompositionRetrieval.run: where the run is
    dquestion,      \* DecompositionRetrieval.run: the question read
    sub_questions,  \* retrieve_and_rag: the generated sub-questions
    dretrieved,     \* retrieve_and_rag: retrieved_docs of each iteration so far
    rag_results,    \* retrieve_and_rag: the answers appended so far
    retriever_calls,  \* the sub-questions handed to the retriever, in order
    d_llm_calls,    \* the invocations of self.llm made by the run, in order
    doutput,        \* DecompositionRetrieval.run: what was printed, or the
                    \* exception that left run
    dfailure,       \* which retriever or language-model call of the run failed
    method,         \* call_method: the pipeline it started
    dispatch_out    \* call_method: what it printed itself

rrfVars == <<results, k, ret, op>>

fusionVars == <<fpc, question, queries, retrieved, llm_calls, output>>

formatVars == <<qa_questions, qa_answers, formatted>>

decompVars == <<dpc, dquestion, sub_questions, dretrieved, rag_results,
                retriever_calls, d_llm_calls, doutput, dfailure>>

dispatchVars == <<method, dispatch_out>>

vars == <<results, k, ret, op, fpc, question, queries, retrieved, llm_calls,
          output, qa_questions, qa_answers, formatted, dpc, dquestion,
          sub_questions, dretrieved, rag_results, retriever_calls, d_llm_calls,
          doutput, dfailure, method, dispatch_out>>

----------------------------------------------------------------------------
(* Bounds of the model *)

\* most ranked lists in one call of reciprocal_rank_fusion
MaxLists == 2

\* most documents, over all the ranked lists of one call
MaxTotal == 4

\* most documents the retriever returns for one query
MaxRetrieved == 2

\* most question/answer pairs in one call of format_qa_pairs
MaxPairs == 2

----------------------------------------------------------------------------
(* Rational arithmetic for the float scores *)

Abs(x) == IF x < 0 THEN -x ELSE x

RECURSIVE GCD(_, _)
GCD(a, b) == IF b = 0 THEN a ELSE GCD(b, a % b)

\* n/d in lowest terms with a positive denominator (d # 0)
Rat(n, d) ==
    LET g == GCD(Abs(n), Abs(d))
        s == IF d < 0 THEN -1 ELSE 1
    IN  <<(s * n) \div g, Abs(d) \div g>>

Zero == Rat(0, 1)

\* x + y over the least common denominator
RatAdd(x, y) ==
    LET g == GCD(x[2], y[2])
    IN  Rat(x[1] * (y[2] \div g) + y[1] * (x[2] \div g), (x[2] \div g) * y[2])

\* a/b < c/d for b, d > 0, by integer parts and then the inverted remainders
RECURSIVE FracLess(_, _, _, _)
FracLess(a, b, c, d) ==
    LET qa == a \div b
        qc == c \div d
        ra == a - qa * b
        rc == c - qc * d
    IN  IF qa # qc THEN qa < qc
        ELSE IF rc = 0 THEN FALSE
        ELSE IF ra = 0 THEN TRUE
        ELSE FracLess(d, rc, b, ra)

RatLess(x, y) == FracLess(x[1], x[2], y[1], y[2])

----------------------------------------------------------------------------
(* Documents and their serialization *)

DocA1 == [page_content |-> <<"a">>, metadata |-> "s1", oid |-> 1]

\* another object with the fields of DocA1
DocA2 == [page_content |-> <<"a">>, metadata |-> "s1", oid |-> 2]

DocB == [page_content |-> <<"b">>, metadata |-> "s1", oid |-> 1]

DocPool == {DocA1, DocA2, DocB}

\* a key that tells the objects apart
dumpsWithObjectIdentity(doc) ==
    [lc |-> 1, type |-> "constructor", id |-> doc.oid,
     kwargs |-> [page_content |-> doc.page_content, metadata |-> doc.metadata]]

\* langchain.load.dumps(doc), the dictionary key: the constructor record of
\* the document's fields, without the identity of the object
dumps(doc) ==
    [lc |-> 1, type |-> "constructor", id |-> "Document",
     kwargs |-> [page_content |-> doc.page_content, metadata |-> doc.metadata]]

\* langchain.load.loads(doc): a new Document object built from the key
loads(s) ==
    [page_content |-> s.kwargs.page_content, metadata |-> s.kwargs.metadata,
     oid |-> 0]

----------------------------------------------------------------------------
(* reciprocal_rank_fusion *)

\* ranks counted from 1
EnumRankOneBased(j) == j

\* enumerate(docs): the rank of the document at (1-based) position j
EnumRank(j) == j - 1

\* the divisor with the rank subtracted
DenominatorMinus(rank, kk) == kk - rank

\* rank + k, the divisor of 1 / (rank + k)
Denominator(rank, kk) == rank + kk

\* 1 / (rank + k), for rank + k # 0 (a divisor of 0 is a ZeroDivisionError)
Contribution(rank, kk) == Rat(1, Denominator(rank, kk))

\* an assignment in place of the +=
AccumulateOverwrite(old, c) == c

\* fused_scores[doc_str] += c
Accumulate(old, c) == RatAdd(old, c)

\* fused_scores is a dict, which keeps its keys in insertion order: a
\* sequence of [key, score]
KeyIndex(fused, key) ==
    IF \E i \in 1..Len(fused) : fused[i].key = key
    THEN CHOOSE i \in 1..Len(fused) : fused[i].key = key
    ELSE 0

\* if doc_str not in fused_scores: fused_scores[doc_str] = 0
\* fused_scores[doc_str] += 1 / (rank + k)
AddScore(fused, key, c) ==
    LET withKey == IF KeyIndex(fused, key) = 0
                   THEN Append(fused, [key |-> key, score |-> Zero])
                   ELSE fused
        i == KeyIndex(withKey, key)
    IN  [withKey EXCEPT ![i].score = Accumulate(@, c)]

\* for rank, doc in enumerate(docs): ... ; acc.err is a ZeroDivisionError
RECURSIVE ScanList(_, _, _, _)
ScanList(docs, j, kk, acc) ==
    IF acc.err \/ j > Len(docs) THEN acc
    ELSE IF Denominator(EnumRank(j), kk) = 0
         THEN [err |-> TRUE, fused |-> acc.fused]
         ELSE ScanList(docs, j + 1, kk,
                       [err |-> FALSE,
                        fused |-> AddScore(acc.fused, dumps(docs[j]),
                                           Contribution(EnumRank(j), kk))])

\* for docs in results: ...
RECURSIVE ScanLists(_, _, _, _)
ScanLists(res, i, kk, acc) ==
    IF acc.err \/ i > Len(res) THEN acc
    ELSE ScanLists(res, i + 1, kk, ScanList(res[i], 1, kk, acc))

\* x goes into the sorted sequence s after every item whose score is not
\* lower than its own: items of equal score keep the order they came in
RECURSIVE InsertDesc(_, _)
InsertDesc(s, x) ==
    IF s = <<>> THEN <<x>>
    ELSE IF RatLess(Head(s).score, x.score) THEN <<x>> \o s
         ELSE <<Head(s)>> \o InsertDesc(Tail(s), x)

\* the same, ascending
RECURSIVE InsertAsc(_, _)
InsertAsc(s, x) ==
    IF s = <<>> THEN <<x>>
    ELSE IF RatLess(x.score, Head(s).score) THEN <<x>> \o s
         ELSE <<Head(s)>> \o InsertAsc(Tail(s), x)

RECURSIVE SortAsc(_, _)
SortAsc(done, rest) ==
    IF rest = <<>> THEN done
    ELSE SortAsc(InsertAsc(done, Head(rest)), Tail(rest))

Reverse(s) == [i \in 1..Len(s) |-> s[Len(s) + 1 - i]]

\* a sort by ascending score that is then reversed: equal scores end up in
\* the reverse of their insertion order
SortedAscThenReversed(items) == Reverse(SortAsc(<<>>, items))

RECURSIVE SortDesc(_, _)
SortDesc(done, rest) ==
    IF rest = <<>> THEN done
    ELSE SortDesc(InsertDesc(done, Head(rest)), Tail(rest))

\* sorted(fused_scores.items(), key=lambda x: x[1], reverse=True): a stable
\* sort, and reverse=True keeps the insertion order of equal scores
SortedByScore(items) == SortDesc(<<>>, items)

\* no check of the argument
NeverEmpty(res) == FALSE

\* if not results
IsEmptyResults(res) == res = <<>>

NoReturn == [status |-> "none", msg |-> "", value |-> <<>>]

Raised(msg) == [status |-> "ValueError", msg |-> msg, value |-> <<>>]

Returned(value) == [status |-> "ok", msg |-> "", value |-> value]

reciprocal_rank_fusion(res, kk) ==
    IF IsEmptyResults(res) THEN Raised("Results list cannot be empty")
    ELSE LET acc == ScanLists(res, 1, kk, [err |-> FALSE, fused |-> <<>>])
         IN  IF acc.err
             THEN Raised("Failed to perform reciprocal rank fusion: division by zero")
             ELSE LET sorted == SortedByScore(acc.fused)
                  IN  Returned([i \in 1..Len(sorted) |->
                                   <<loads(sorted[i].key), sorted[i].score>>])

----------------------------------------------------------------------------
(* The calls of reciprocal_rank_fusion: a first call on any input, then    *)
(* calls whose input is the last one with a list more, with a document     *)
(* moved to a better rank, or with its lists in another order.             *)

DefaultK == 60

KValues == {-1, 0, 1, DefaultK}

ListsOfLen(n) == [1..n -> DocPool]

\* the sequences of n ranked lists holding at most t documents together
RECURSIVE InputsOf(_, _)
InputsOf(n, t) ==
    IF n = 0 THEN {<<>>}
    ELSE UNION {{<<l>> \o r : l \in ListsOfLen(j), r \in InputsOf(n - 1, t - j)}
                : j \in 0..t}

Inputs == UNION {InputsOf(n, MaxTotal) : n \in 0..MaxLists}

RECURSIVE Total(_)
Total(res) == IF res = <<>> THEN 0 ELSE Len(Head(res)) + Total(Tail(res))

\* docs with the document at position j moved up to position j2 < j
MoveTo(docs, j, j2) ==
    [p \in 1..Len(docs) |->
        IF p < j2 \/ p > j THEN docs[p]
        ELSE IF p = j2 THEN docs[j] ELSE docs[p - 1]]

Perms(n) == {p \in [1..n -> 1..n] : \A a, b \in 1..n : p[a] = p[b] => a = b}

Permuted(res, p) == [i \in 1..Len(res) |-> res[p[i]]]

NoOutput == [kind |-> "none", stage |-> "", msg |-> "", text |-> <<>>]

\* the pipeline before its run
FusionIdle ==
    /\ fpc = "start"
    /\ question = <<>>
    /\ queries = <<>>
    /\ retrieved = <<>>
    /\ llm_calls = <<>>
    /\ output = NoOutput

\* format_qa_pairs before its call
FormatIdle ==
    /\ qa_questions = <<>>
    /\ qa_answers = <<>>
    /\ formatted = [called |-> FALSE, text |-> <<>>]

\* the decomposition pipeline before its run
DecompIdle ==
    /\ dpc = "start"
    /\ dquestion = <<>>
    /\ sub_questions = <<>>
    /\ dretrieved = <<>>
    /\ rag_results = <<>>
    /\ retriever_calls = <<>>
    /\ d_llm_calls = <<>>
    /\ doutput = NoOutput
    /\ dfailure = "none"

\* call_method not called
DispatchIdle ==
    /\ method = "none"
    /\ dispatch_out = ""

\* reciprocal_rank_fusion before its call
RRFIdle ==
    /\ results = <<>>
    /\ k = DefaultK
    /\ ret = NoReturn
    /\ op = "init"

RRFInit ==
    /\ results \in Inputs
    /\ k \in KValues
    /\ ret = NoReturn
    /\ op = "init"
    /\ FusionIdle
    /\ FormatIdle
    /\ DecompIdle
    /\ DispatchIdle

Call ==
    /\ op = "init"
    /\ ret' = reciprocal_rank_fusion(results, k)
    /\ op' = "call"
    /\ UNCHANGED <<results, k, fusionVars, formatVars, decompVars, dispatchVars>>

CallWithExtraList ==
    /\ op # "init"
    /\ Len(results) < MaxLists
    /\ \E n \in 0..(MaxTotal - Total(results)) : \E l \in ListsOfLen(n) :
          /\ results' = Append(results, l)
          /\ ret' = reciprocal_rank_fusion(results', k)
    /\ op' = "extra"
    /\ UNCHANGED <<k, fusionVars, formatVars, decompVars, dispatchVars>>

CallWithPromoted ==
    /\ op # "init"
    /\ \E i \in 1..Len(results) : \E j \in 1..Len(results[i]) : \E j2 \in 1..(j - 1) :
          /\ results' = [results EXCEPT ![i] = MoveTo(results[i], j, j2)]
          /\ ret' = reciprocal_rank_fusion(results', k)
    /\ op' = "promote"
    /\ UNCHANGED <<k, fusionVars, formatVars, decompVars, dispatchVars>>

CallWithPermuted ==
    /\ op # "init"
    /\ \E p \in Perms(Len(results)) :
          /\ results' = Permuted(results, p)
          /\ results' # results
          /\ ret' = reciprocal_rank_fusion(results', k)
    /\ op' = "permute"
    /\ UNCHANGED <<k, fusionVars, formatVars, decompVars, dispatchVars>>

RRFNext == Call \/ CallWithExtraList \/ CallWithPromoted \/ CallWithPermuted

SpecRRF == RRFInit /\ [][RRFNext]_vars

----------------------------------------------------------------------------
(* What the claims about reciprocal_rank_fusion speak of *)

\* two documents are the same document: all their fields are equal,
\* whichever objects hold them
SameDocument(d1, d2) ==
    d1.page_content = d2.page_content /\ d1.metadata = d2.metadata

\* the occurrences <<list, position>> of documents in the lists
Occurrences(res) ==
    UNION {{<<i, j>> : j \in 1..Len(res[i])} : i \in 1..Len(res)}

OccurrencesOf(res, doc) ==
    {o \in Occurrences(res) : SameDocument(res[o[1]][o[2]], doc)}

RECURSIVE SumOfReciprocals(_, _)
SumOfReciprocals(occ, kk) ==
    IF occ = {} THEN <<0, 1>>
    ELSE LET o == CHOOSE x \in occ : TRUE
         IN  RatAdd(Rat(1, (o[2] - 1) + kk), SumOfReciprocals(occ \ {o}, kk))

\* o1 is met before o2 in the scan, list by list, position by position
ScannedBefore(o1, o2) == o1[1] < o2[1] \/ (o1[1] = o2[1] /\ o1[2] < o2[2])

\* the first occurrence of doc in the scan
FirstSeen(res, doc) ==
    CHOOSE o \in OccurrencesOf(res, doc) :
        \A o2 \in OccurrencesOf(res, doc) : o = o2 \/ ScannedBefore(o, o2)

Entries(r) == {r.value[e] : e \in 1..Len(r.value)}

EntryOf(r, doc) == {x \in Entries(r) : SameDocument(x[1], doc)}

\* the fused score of doc in r, 0 when r has no entry for it
ScoreOrZero(r, doc) ==
    IF EntryOf(r, doc) = {} THEN <<0, 1>>
    ELSE (CHOOSE x \in EntryOf(r, doc) : TRUE)[2]

ExampleLists == <<<<DocA1, DocB>>, <<DocB, DocA1>>>>

\* C1: for non-empty results and k > 0 the call returns, and every entry's
\* score is the sum of 1/(rank + k) over the occurrences of its document at
\* 0-based position rank in any list; [[A,B],[B,A]] with k = 1 gives A and
\* B the score 3/2.
C1_ScoreIsSumOfReciprocalRanks ==
    /\ (op # "init" /\ results # <<>> /\ k > 0) =>
          /\ ret.status = "ok"
          /\ \A e \in 1..Len(ret.value) :
                ret.value[e][2] =
                    SumOfReciprocals(OccurrencesOf(results, ret.value[e][1]), k)
    /\ (op # "init" /\ results = ExampleLists /\ k = 1) =>
          /\ ScoreOrZero(ret, DocA1) = <<3, 2>>
          /\ ScoreOrZero(ret, DocB) = <<3, 2>>

C1_Witness ==
    /\ op # "init" /\ results = ExampleLists /\ k = 1
    /\ ret.status = "ok" /\ Len(ret.value) = 2

\* C2: a returned sequence is sorted by score descending, and entries of
\* equal score are in the order in which their documents were first met in
\* the scan of the lists; [[A,B],[B,A]] with k = 1 gives A before B.
C2_SortedDescendingTiesFirstSeen ==
    /\ ret.status = "ok" =>
          \A a, b \in 1..Len(ret.value) :
             a < b =>
                /\ ~RatLess(ret.value[a][2], ret.value[b][2])
                /\ ret.value[a][2] = ret.value[b][2] =>
                      ScannedBefore(FirstSeen(results, ret.value[a][1]),
                                    FirstSeen(results, ret.value[b][1]))
    /\ (op # "init" /\ results = ExampleLists /\ k = 1) =>
          /\ Len(ret.value) = 2
          /\ SameDocument(ret.value[1][1], DocA1)
          /\ SameDocument(ret.value[2][1], DocB)

C2_Witness ==
    /\ op # "init" /\ results = ExampleLists /\ k = 1
    /\ ret.status = "ok" /\ Len(ret.value) = 2
    /\ ret.value[1][2] = ret.value[2][2]

\* C3: the documents of a returned sequence are the distinct documents (by
\* their fields) of the input lists, each in exactly one entry, so the
\* result is non-empty whenever some list is.
C3_OneEntryPerDistinctDocument ==
    ret.status = "ok" =>
       /\ \A o \in Occurrences(results) :
             Cardinality({e \in 1..Len(ret.value) :
                 SameDocument(ret.value[e][1], results[o[1]][o[2]])}) = 1
       /\ \A e \in 1..Len(ret.value) :
             OccurrencesOf(results, ret.value[e][1]) # {}
       /\ Total(results) > 0 => Len(ret.value) > 0

C3_Witness ==
    /\ ret.status = "ok" /\ Len(ret.value) = 1
    /\ \E o1, o2 \in Occurrences(results) :
          /\ o1[1] # o2[1]
          /\ results[o1[1]][o1[2]] = DocA1
          /\ results[o2[1]][o2[2]] = DocA2

SameRelativeOrder(r, r2, a, b) ==
    \A a2, b2 \in 1..Len(r2.value) :
       (r2.value[a2] = r.value[a] /\ r2.value[b2] = r.value[b]) =>
          (a < b <=> a2 < b2)

C5_ScoreMonotone ==
    [][k > 0 =>
          /\ (op' = "extra") =>
                /\ ret'.status = "ok"
                /\ \A j \in 1..Len(results'[Len(results')]) :
                      LET d == results'[Len(results')][j]
                      IN  ~RatLess(ScoreOrZero(ret', d), ScoreOrZero(ret, d))
          /\ (op' = "promote") =>
                \A i \in 1..Len(results) : \A j \in 1..Len(results[i]) :
                   \A j2 \in 1..(j - 1) :
                      results' = [results EXCEPT ![i] = MoveTo(results[i], j, j2)] =>
                         /\ ret'.status = "ok"
                         /\ ~RatLess(ScoreOrZero(ret', results[i][j]),
                                     ScoreOrZero(ret, results[i][j]))]_vars

C5_Witness ==
    /\ op = "promote" /\ k > 0 /\ ret.status = "ok"
    /\ Len(ret.value) >= 2
    /\ RatLess(ret.value[2][2], ret.value[1][2])

\* C6: a returned score is never negative, and a call whose k is not
\* positive, on lists that hold a document, ends in an error.
C6_NoNegativeScoreReturned ==
    /\ ret.status = "ok" =>
          \A e \in 1..Len(ret.value) : ~RatLess(ret.value[e][2], <<0, 1>>)
    /\ (op # "init" /\ k <= 0 /\ Total(results) > 0) =>
          ret.status = "ValueError"

\* C7: a call with no list at all raises ValueError and returns nothing; a
\* call with lists that are all empty returns an empty result.
C7_EmptyInputs ==
    op # "init" =>
       /\ results = <<>> =>
             ret = [status |-> "ValueError",
                    msg |-> "Results list cannot be empty", value |-> <<>>]
       /\ (results # <<>> /\ Total(results) = 0) =>
             ret = [status |-> "ok", msg |-> "", value |-> <<>>]

\* both cases in one run: fuse([]) raised, then fuse([[]]) returned
C7_Witness ==
    /\ op = "extra" /\ results = <<<<>>>>
    /\ ret.status = "ok" /\ ret.value = <<>>

----------------------------------------------------------------------------
(* FusionRetrieval.run: the fusion pipeline *)

Questions == {<<>>, <<"q">>}

\* what the language model may answer to the query-generation prompt
ExpansionReplies ==
    {<<>>, <<"x">>, <<"x", "\n", "y">>, <<"x", "\n", "\n", "y">>}

\* what the language model may answer to the final prompt
SynthesisReplies == {<<"r">>}

\* how an invocation of the language model may end: with one of the texts,
\* or with an exception
LLMOutcomes(texts) ==
    {[failed |-> FALSE, text |-> t] : t \in texts}
    \cup {[failed |-> TRUE, text |-> <<>>]}

\* x.split("\n"): the pieces between the line breaks, empty ones included
RECURSIVE SplitLines(_)
SplitLines(text) ==
    IF \A i \in 1..Len(text) : text[i] # "\n" THEN <<text>>
    ELSE LET i == CHOOSE n \in 1..Len(text) :
                     text[n] = "\n" /\ \A m \in 1..(n - 1) : text[m] # "\n"
         IN  <<SubSeq(text, 1, i - 1)>> \o SplitLines(SubSeq(text, i + 1, Len(text)))

\* "\n".join(lines)
RECURSIVE JoinLines(_)
JoinLines(lines) ==
    IF lines = <<>> THEN <<>>
    ELSE IF Len(lines) = 1 THEN lines[1]
    ELSE lines[1] \o <<"\n">> \o JoinLines(Tail(lines))

RetrievedLists == UNION {ListsOfLen(n) : n \in 0..MaxRetrieved}

Printed(kind, stage, msg, text) ==
    [kind |-> kind, stage |-> stage, msg |-> msg, text |-> text]

\* print(f"Error: {e}") for the ValueError of retrieve_documents
RetrievalError(msg) == Printed("Error", "Failed to retrieve documents", msg, <<>>)

\* print(f"Error: {e}") for the ValueError of answer_question's try block
AnswerError(msg) == Printed("Error", "Failed to generate answer", msg, <<>>)

LLMCall(purpose, q, context) ==
    [purpose |-> purpose, question |-> q, context |-> context]

\* if not question
IsEmptyQuestion(q) == q = <<>>

\* no check of the fused result
NeverNoDocs(docs) == FALSE

\* if not docs, in retrieve_documents
NoDocsRetrieved(docs) == docs = <<>>

\* if not docs, in answer_question
NoDocsToAnswer(docs) == docs = <<>>

PyStr(text) == [type |-> "str", value |-> text]

\* langchain's coercion of the operand of | : a Runnable, a callable or a
\* dict is accepted, anything else is a TypeError
RunnableLike(v) == v.type \in {"Runnable", "callable", "dict"}

\* {"context": context, "question": question} | self.rag_template: the dict
\* becomes a RunnableParallel, each of whose values must be coerced
ChainBuilt(d) == \A key \in DOMAIN d : RunnableLike(d[key])

\* answer_question up to the invocation of the chain: what it raises, or the
\* prompt it sends to the language model
answer_question(q, docs) ==
    IF NoDocsToAnswer(docs)
    THEN [raised |-> TRUE,
          error |-> Printed("Error", "", "No documents retrieved to generate an answer", <<>>)]
    ELSE LET context == JoinLines([i \in 1..Len(docs) |-> docs[i][1].page_content])
             chain == [context |-> PyStr(context), question |-> PyStr(q)]
         IN  IF ChainBuilt(chain)
             THEN [raised |-> FALSE, call |-> LLMCall("synthesize", q, context)]
             ELSE [raised |-> TRUE,
                   error |-> AnswerError("TypeError: Expected a Runnable, callable or dict")]

\* retrieve_documents once every retriever call has returned: the fusion
\* and the check of its result
retrieve_documents(lists, kk) ==
    LET fused == reciprocal_rank_fusion(lists, kk)
    IN  IF fused.status # "ok"
        THEN [raised |-> TRUE, error |-> RetrievalError(fused.msg)]
        ELSE IF NoDocsRetrieved(fused.value)
        THEN [raised |-> TRUE,
              error |-> RetrievalError("No documents retrieved for the given question.")]
        ELSE [raised |-> FALSE, docs |-> fused.value]

ListsOf(r) == [i \in 1..Len(r) |-> r[i].docs]

AllReturned(r) == \A i \in 1..Len(r) : r[i].done

\* the rest of run once the last retriever call has returned
FinishRun(r) ==
    LET got == retrieve_documents(ListsOf(r), DefaultK)
    IN  IF got.raised
        THEN /\ output' = got.error
             /\ UNCHANGED llm_calls
        ELSE LET ans == answer_question(question, got.docs)
             IN  IF ans.raised
                 THEN /\ output' = ans.error
                      /\ UNCHANGED llm_calls
                 ELSE /\ llm_calls' = Append(llm_calls, ans.call)
                      /\ \E reply \in LLMOutcomes(SynthesisReplies) :
                            output' = IF reply.failed
                                      THEN AnswerError("LanguageModel error")
                                      ELSE Printed("Answer", "", "", reply.text)

FusionInit ==
    /\ FusionIdle
    /\ RRFIdle
    /\ FormatIdle
    /\ DecompIdle
    /\ DispatchIdle

\* run reads the question; retrieve_documents rejects an empty one, and
\* otherwise invokes generate_queries, which calls the language model
StartRun ==
    /\ fpc = "start"
    /\ \E q \in Questions :
          /\ question' = q
          /\ IF IsEmptyQuestion(q)
             THEN /\ output' = Printed("Error", "", "Question cannot be empty", <<>>)
                  /\ fpc' = "done"
                  /\ UNCHANGED llm_calls
             ELSE /\ llm_calls' = Append(llm_calls, LLMCall("expand", q, <<>>))
                  /\ fpc' = "expanding"
                  /\ UNCHANGED output
    /\ UNCHANGED <<queries, retrieved, rrfVars, formatVars, decompVars, dispatchVars>>

\* the language model answers; the text is split into queries and
\* self.retriever.map() calls the retriever for each of them
ExpandReturns ==
    /\ fpc = "expanding"
    /\ \E text \in ExpansionReplies :
          /\ queries' = SplitLines(text)
          /\ retrieved' = [i \in 1..Len(queries') |-> [done |-> FALSE, docs |-> <<>>]]
    /\ fpc' = "retrieving"
    /\ UNCHANGED <<question, llm_calls, output, rrfVars, formatVars, decompVars,
                   dispatchVars>>

ExpandFails ==
    /\ fpc = "expanding"
    /\ output' = RetrievalError("LanguageModel error")
    /\ fpc' = "done"
    /\ UNCHANGED <<question, queries, retrieved, llm_calls, rrfVars, formatVars,
                   decompVars, dispatchVars>>

\* one retriever call returns; after the last one the run goes on to its end
RetrieverReturns ==
    /\ fpc = "retrieving"
    /\ \E i \in 1..Len(retrieved) : \E l \in RetrievedLists :
          /\ ~retrieved[i].done
          /\ retrieved' = [retrieved EXCEPT ![i] = [done |-> TRUE, docs |-> l]]
          /\ IF AllReturned(retrieved')
             THEN /\ FinishRun(retrieved')
                  /\ fpc' = "done"
             ELSE UNCHANGED <<fpc, llm_calls, output>>
    /\ UNCHANGED <<question, queries, rrfVars, formatVars, decompVars, dispatchVars>>

RetrieverFails ==
    /\ fpc = "retrieving"
    /\ \E i \in 1..Len(retrieved) : ~retrieved[i].done
    /\ output' = RetrievalError("Retriever error")
    /\ fpc' = "done"
    /\ UNCHANGED <<question, queries, retrieved, llm_calls, rrfVars, formatVars,
                   decompVars, dispatchVars>>

FusionNext ==
    StartRun \/ ExpandReturns \/ ExpandFails \/ RetrieverReturns \/ RetrieverFails

SpecFusion == FusionInit /\ [][FusionNext]_vars

----------------------------------------------------------------------------
(* What the claims about the fusion pipeline speak of *)

SynthesisCalls == {i \in 1..Len(llm_calls) : llm_calls[i].purpose = "synthesize"}

\* the run is over and no retriever or language-model call failed in
\* query expansion or retrieval
RetrievalCompleted ==
    /\ fpc = "done" /\ question # <<>>
    /\ queries # <<>> /\ AllReturned(retrieved)

\* C8: a run in which every retriever call returned an empty list ends by
\* printing the error of retrieve_documents, "No documents retrieved for the
\* given question.", and its only language-model invocation is the query
\* expansion.
C8_EmptyRetrievalStopsBeforeSynthesis ==
    (RetrievalCompleted /\ \A i \in 1..Len(retrieved) : retrieved[i].docs = <<>>) =>
       /\ output = [kind |-> "Error", stage |-> "Failed to retrieve documents",
                    msg |-> "No documents retrieved for the given question.",
                    text |-> <<>>]
       /\ llm_calls = <<[purpose |-> "expand", question |-> question,
                         context |-> <<>>]>>

C8_Witness ==
    /\ RetrievalCompleted /\ Len(retrieved) >= 2
    /\ \A i \in 1..Len(retrieved) : retrieved[i].docs = <<>>
    /\ output.kind = "Error"

\* C9: a run with a non-empty question in which a document was retrieved
\* and no retriever or language-model call failed invokes the language
\* model exactly once for synthesis, with the question and the newline-join
\* of the contents of the fused documents in fused order.
C9_SynthesisInvokedOnceWithFusedContext ==
    (/\ RetrievalCompleted
     /\ \E i \in 1..Len(retrieved) : retrieved[i].docs # <<>>
     /\ output.msg # "LanguageModel error") =>
       LET fused == reciprocal_rank_fusion(ListsOf(retrieved), DefaultK).value
       IN  /\ Cardinality(SynthesisCalls) = 1
           /\ \A i \in SynthesisCalls :
                 /\ llm_calls[i].question = question
                 /\ llm_calls[i].context =
                       JoinLines([e \in 1..Len(fused) |-> fused[e][1].page_content])
           /\ output.kind = "Answer"

----------------------------------------------------------------------------
(* DecompositionRetrieval.format_qa_pairs *)

\* the sub-questions are pieces of a text split at its line breaks
SubQuestions == {<<>>, <<"p">>, <<"q">>}

\* the sub-answers are texts of the language model
SubAnswers == {<<>>, <<"a">>, <<"a", " ">>, <<"b", "\n">>}

DigitChars == <<"0", "1", "2", "3", "4", "5", "6", "7", "8", "9">>

\* str(i) for i >= 0, as the f-string renders {i}
RECURSIVE Decimal(_)
Decimal(i) ==
    IF i < 10 THEN <<DigitChars[i + 1]>>
    ELSE Decimal(i \div 10) \o <<DigitChars[(i % 10) + 1]>>

\* pairs numbered from 0
PairNumberFromZero(n) == n - 1

\* enumerate(..., start=1): the number of the n-th pair
PairNumber(n) == n

QuestionLabel == <<"Q", "u", "e", "s", "t", "i", "o", "n", " ">>

AnswerLabel == <<"A", "n", "s", "w", "e", "r", " ">>

\* f"Question {i}: {question}\nAnswer {i}: {answer}\n\n"
FormatPair(i, q, a) ==
    QuestionLabel \o Decimal(i) \o <<":", " ">> \o q \o <<"\n">>
    \o AnswerLabel \o Decimal(i) \o <<":", " ">> \o a \o <<"\n", "\n">>

IsSpace(c) == c \in {" ", "\n", "\t", "\r"}

RECURSIVE LStrip(_)
LStrip(t) == IF t # <<>> /\ IsSpace(Head(t)) THEN LStrip(Tail(t)) ELSE t

RECURSIVE RStrip(_)
RStrip(t) ==
    IF t # <<>> /\ IsSpace(t[Len(t)]) THEN RStrip(SubSeq(t, 1, Len(t) - 1)) ELSE t

\* str.strip(): without the whitespace at both ends
Strip(t) == LStrip(RStrip(t))

\* for i, (question, answer) in enumerate(zip(questions, answers), start=1):
\*     formatted_string += ...
RECURSIVE FormatLoop(_, _, _, _)
FormatLoop(qs, as, n, acc) ==
    IF n > Len(qs) \/ n > Len(as) THEN acc
    ELSE FormatLoop(qs, as, n + 1,
                    acc \o FormatPair(PairNumber(n), qs[n], as[n]))

format_qa_pairs(qs, as) == Strip(FormatLoop(qs, as, 1, <<>>))

\* retrieve_and_rag returns one answer per sub-question
FormatInit ==
    /\ \E n \in 0..MaxPairs :
          /\ qa_questions \in [1..n -> SubQuestions]
          /\ qa_answers \in [1..n -> SubAnswers]
    /\ formatted = [called |-> FALSE, text |-> <<>>]
    /\ RRFIdle
    /\ FusionIdle
    /\ DecompIdle
    /\ DispatchIdle

Format ==
    /\ ~formatted.called
    /\ formatted' = [called |-> TRUE, text |-> format_qa_pairs(qa_questions, qa_answers)]
    /\ UNCHANGED <<qa_questions, qa_answers, rrfVars, fusionVars, decompVars,
                   dispatchVars>>

FormatNext == Format

SpecFormat == FormatInit /\ [][FormatNext]_vars

----------------------------------------------------------------------------
(* What the claims about format_qa_pairs speak of *)

\* "Question i: qi" immediately followed, on the next line, by "Answer i: ai"
Block(i) ==
    QuestionLabel \o Decimal(i) \o <<":", " ">> \o qa_questions[i] \o <<"\n">>
    \o AnswerLabel \o Decimal(i) \o <<":", " ">> \o qa_answers[i]

\* blocks 1..n in this order, a blank line between two blocks
RECURSIVE JoinBlocks(_)
JoinBlocks(n) ==
    IF n = 0 THEN <<>>
    ELSE IF n = 1 THEN Block(1)
    ELSE JoinBlocks(n - 1) \o <<"\n", "\n">> \o Block(n)

EndsInWhitespace(t) == t # <<>> /\ t[Len(t)] \in {" ", "\n", "\t", "\r"}

RECURSIVE WithoutTrailingWhitespace(_)
WithoutTrailingWhitespace(t) ==
    IF EndsInWhitespace(t)
    THEN WithoutTrailingWhitespace([i \in 1..(Len(t) - 1) |-> t[i]])
    ELSE t

\* C10 as claimed: the formatted text is the blocks "Question i: qi" /
\* "Answer i: ai" for i = 1..n, 1-indexed and in emission order, each answer
\* that of its own sub-question, and it has no trailing whitespace.
C10_BlocksInOrderNoTrailingWhitespace ==
    formatted.called =>
       /\ formatted.text = JoinBlocks(Len(qa_questions))
       /\ ~EndsInWhitespace(formatted.text)

\* C10 as amended: the formatted text is those blocks in that order with
\* the whitespace at the end of the whole text removed, so the last answer
\* appears without its trailing whitespace (and an empty or blank last
\* answer leaves "Answer n:"); every earlier block appears in full.
C10_BlocksInOrderTrimmedAtEnd ==
    formatted.called =>
       /\ formatted.text = WithoutTrailingWhitespace(JoinBlocks(Len(qa_questions)))
       /\ ~EndsInWhitespace(formatted.text)
       /\ \A i \in 1..(Len(qa_questions) - 1) :
             SubSeq(formatted.text, 1, Len(JoinBlocks(i)) + 2)
                 = JoinBlocks(i) \o <<"\n", "\n">>

C10_Witness ==
    /\ formatted.called /\ Len(qa_questions) = 2
    /\ qa_questions[1] # qa_questions[2]
    /\ qa_answers[1] = <<"b", "\n">> /\ qa_answers[2] = <<"a", " ">>
    /\ formatted.text # JoinBlocks(2)

----------------------------------------------------------------------------
(* DecompositionRetrieval.run: the decomposition pipeline *)

DecompQuestions == {<<>>, <<"q">>, <<"w">>}

\* what the language model may answer to the decomposition prompt
DecompositionReplies ==
    {<<>>, <<"p">>, <<"p", "\n", "q">>, <<"q", "\n", "p">>,
     <<"p", "\n", "\n", "q">>}

\* the input variables of self.decomposition_prompt: its {placeholders}
DecompositionPromptVariables == {"question", "q_a_pairs", "context"}

\* the keys of the dict the sub-question chain is invoked with
SubQuestionInputKeys == {"context", "question"}

\* ChatPromptTemplate.invoke: the input variables the input lacks; any is a
\* KeyError, raised before the language model is reached
MissingVariables(templateVars, keys) == templateVars \ keys

\* the class of the exception of a failing retriever or language-model call
CollaboratorError == "Exception"

\* the exception raised again as it came
Reraised(cls) == cls

\* except Exception as e: raise ValueError(...): the class of what is raised
WrappedClass(cls) == "ValueError"

\* run: except ValueError as e
RunCatches(cls) == cls = "ValueError"

\* what run does with an exception of class cls raised in its try block: it
\* prints it, or the exception leaves run (recorded with its class)
RunOutcome(cls, stage, msg) ==
    IF RunCatches(cls) THEN Printed("Error", stage, msg, <<>>)
    ELSE Printed("Uncaught", cls, msg, <<>>)

\* an except block that gives back what was gathered so far
LoopExceptionSwallowed(cls, msg) == [raised |-> FALSE, error |-> NoOutput]

\* the except block of retrieve_and_rag
LoopException(cls, msg) ==
    [raised |-> TRUE,
     error |-> RunOutcome(WrappedClass(cls),
                          "Failed to retrieve and RAG sub-questions", msg)]

RunState(pc, out, calls, answers, rcalls, failure) ==
    [pc |-> pc, out |-> out, calls |-> calls, answers |-> answers,
     rcalls |-> rcalls, failure |-> failure]

\* run after retrieve_and_rag returned: format_qa_pairs, the final chain
\* and the print; the ways it may end
EndOfRun(subqs, answers, calls, rcalls, failure) ==
    LET context == format_qa_pairs(subqs, answers)
        made == Append(calls, LLMCall("synthesize", dquestion, context))
    IN  {RunState("done",
                  IF reply.failed
                  THEN RunOutcome(CollaboratorError, "", "LanguageModel error")
                  ELSE Printed("Final Answer", "", "", reply.text),
                  made, answers, rcalls,
                  IF reply.failed THEN "synthesis" ELSE failure)
         : reply \in LLMOutcomes(SynthesisReplies)}

\* an exception of class cls in the try block of retrieve_and_rag
AfterException(cls, msg, subqs, answers, calls, rcalls, failure) ==
    LET h == LoopException(cls, msg)
    IN  IF h.raised
        THEN {RunState("done", h.error, calls, answers, rcalls, failure)}
        ELSE EndOfRun(subqs, answers, calls, rcalls, failure)

\* the loop body from the return of the retriever for sub-question n: the
\* sub-question chain, the append, and then the next retriever call or the
\* end of the run
AfterRetrieval(n, docs) ==
    IF MissingVariables(DecompositionPromptVariables, SubQuestionInputKeys) # {}
    THEN AfterException("KeyError", "KeyError: missing variables q_a_pairs",
                        sub_questions, rag_results, d_llm_calls,
                        retriever_calls, dfailure)
    ELSE LET made == Append(d_llm_calls, LLMCall("answer", sub_questions[n], docs))
         IN  UNION {IF reply.failed
                    THEN AfterException(CollaboratorError, "LanguageModel error",
                                        sub_questions, rag_results, made,
                                        retriever_calls, "llm")
                    ELSE IF n < Len(sub_questions)
                    THEN {RunState("retrieving", doutput, made,
                                   Append(rag_results, reply.text),
                                   Append(retriever_calls, n + 1), dfailure)}
                    ELSE EndOfRun(sub_questions, Append(rag_results, reply.text),
                                  made, retriever_calls, dfailure)
                    : reply \in LLMOutcomes(SubAnswers)}

\* the run goes on as o says
Becomes(o) ==
    /\ dpc' = o.pc
    /\ doutput' = o.out
    /\ d_llm_calls' = o.calls
    /\ rag_results' = o.answers
    /\ retriever_calls' = o.rcalls
    /\ dfailure' = o.failure

DecompInit ==
    /\ DecompIdle
    /\ RRFIdle
    /\ FusionIdle
    /\ FormatIdle
    /\ DispatchIdle

\* run reads the question; retrieve_and_rag rejects an empty one, and
\* otherwise invokes the sub-question generator, which calls the language
\* model
DStartRun ==
    /\ dpc = "start"
    /\ \E q \in DecompQuestions :
          /\ dquestion' = q
          /\ IF IsEmptyQuestion(q)
             THEN /\ doutput' = RunOutcome("ValueError", "", "Question cannot be empty")
                  /\ dpc' = "done"
                  /\ UNCHANGED d_llm_calls
             ELSE /\ d_llm_calls' = Append(d_llm_calls, LLMCall("expand", q, <<>>))
                  /\ dpc' = "expanding"
                  /\ UNCHANGED doutput
    /\ UNCHANGED <<sub_questions, dretrieved, rag_results, retriever_calls,
                   dfailure, rrfVars, fusionVars, formatVars, dispatchVars>>

\* the language model answers; the text is split into sub-questions and the
\* loop asks the retriever about the first
DExpandReturns ==
    /\ dpc = "expanding"
    /\ \E text \in DecompositionReplies : sub_questions' = SplitLines(text)
    /\ retriever_calls' = Append(retriever_calls, 1)
    /\ dpc' = "retrieving"
    /\ UNCHANGED <<dquestion, dretrieved, rag_results, d_llm_calls, doutput,
                   dfailure, rrfVars, fusionVars, formatVars, dispatchVars>>

DExpandFails ==
    /\ dpc = "expanding"
    /\ \E o \in AfterException(CollaboratorError, "LanguageModel error",
                               sub_questions, rag_results, d_llm_calls,
                               retriever_calls, "expansion") : Becomes(o)
    /\ UNCHANGED <<dquestion, sub_questions, dretrieved, rrfVars, fusionVars,
                   formatVars, dispatchVars>>

\* the retriever returns the documents of the sub-question in turn
DRetrieverReturns ==
    /\ dpc = "retrieving"
    /\ \E docs \in RetrievedLists :
          /\ dretrieved' = Append(dretrieved, docs)
          /\ \E o \in AfterRetrieval(Len(dretrieved) + 1, docs) : Becomes(o)
    /\ UNCHANGED <<dquestion, sub_questions, rrfVars, fusionVars, formatVars,
                   dispatchVars>>

DRetrieverFails ==
    /\ dpc = "retrieving"
    /\ \E o \in AfterException(CollaboratorError, "Retriever error",
                               sub_questions, rag_results, d_llm_calls,
                               retriever_calls, "retriever") : Becomes(o)
    /\ UNCHANGED <<dquestion, sub_questions, dretrieved, rrfVars, fusionVars,
                   formatVars, dispatchVars>>

DecompNext ==
    DStartRun \/ DExpandReturns \/ DExpandFails \/ DRetrieverReturns
    \/ DRetrieverFails

SpecDecomposition == DecompInit /\ [][DecompNext]_vars

----------------------------------------------------------------------------
(* Claims about the decomposition pipeline *)

CallsFor(purpose) ==
    {i \in 1..Len(d_llm_calls) : d_llm_calls[i].purpose = purpose}

DecompositionFailure == "Failed to retrieve and RAG sub-questions"

\* C11: when the query expansion, or the retriever or language-model call of
\* a sub-question, fails, the run is over with the decomposition failure
\* printed: the sub-question that failed and those after it have no answer
\* and no further retriever call, the synthesis call is never made, and no
\* answer is printed.
C11_FailureAbortsWholeRun ==
    dfailure \in {"expansion", "retriever", "llm"} =>
        /\ dpc = "done"
        /\ doutput.kind = "Error"
        /\ doutput.stage = DecompositionFailure
        /\ CallsFor("synthesize") = {}
        /\ \/ Len(rag_results) < Len(retriever_calls)
           \/ dfailure = "expansion" /\ retriever_calls = <<>>
        /\ Len(retriever_calls) <= Len(dretrieved) + 1
        /\ ~ENABLED DecompNext

\* the retriever failed on the first of two sub-questions
C11_Witness ==
    /\ dfailure = "retriever"
    /\ dpc = "done"
    /\ Len(sub_questions) >= 2
    /\ retriever_calls = <<1>>
    /\ doutput.kind = "Error"

\* C13: a run with a non-empty question in which no retriever or
\* language-model call fails ends with the final answer printed, after one
\* retriever call and one language-model call per sub-question, in the order
\* of the sub-questions, each call given that sub-question and its retrieved
\* documents only, and one more language-model call for the synthesis: with
\* n sub-questions, n + 2 language-model calls in all.
C13_EachSubQuestionAnsweredThenSynthesis ==
    (dpc = "done" /\ ~IsEmptyQuestion(dquestion) /\ dfailure = "none") =>
        LET n == Len(sub_questions)
        IN  /\ doutput.kind = "Final Answer"
            /\ retriever_calls = [i \in 1..n |-> i]
            /\ Len(d_llm_calls) = n + 2
            /\ d_llm_calls[1].purpose = "expand"
            /\ \A i \in 1..n :
                  d_llm_calls[i + 1] =
                      LLMCall("answer", sub_questions[i], dretrieved[i])
            /\ d_llm_calls[n + 2].purpose = "synthesize"

----------------------------------------------------------------------------
(* RAGMethodCaller.call_method: the dispatcher *)

UpperCase ==
    <<"A", "B", "C", "D", "E", "F", "G", "H", "I", "J", "K", "L", "M",
      "N", "O", "P", "Q", "R", "S", "T", "U", "V", "W", "X", "Y", "Z">>

LowerCase ==
    <<"a", "b", "c", "d", "e", "f", "g", "h", "i", "j", "k", "l", "m",
      "n", "o", "p", "q", "r", "s", "t", "u", "v", "w", "x", "y", "z">>

LowerChar(c) ==
    IF \E i \in DOMAIN UpperCase : UpperCase[i] = c
    THEN LowerCase[CHOOSE i \in DOMAIN UpperCase : UpperCase[i] = c]
    ELSE c

\* method_name.lower()
Lower(name) == [i \in 1..Len(name) |-> LowerChar(name[i])]

FusionName == <<"f", "u", "s", "i", "o", "n">>

DecompositionName ==
    <<"d", "e", "c", "o", "m", "p", "o", "s", "i", "t", "i", "o", "n">>

\* the names call_method is given here; "multi_query" is left out, as
\* models/multi_query.py is not among the sources
MethodNames ==
    {FusionName,
     <<"F", "u", "s", "i", "o", "n">>,
     DecompositionName,
     <<"D", "E", "C", "O", "M", "P", "O", "S", "I", "T", "I", "O", "N">>,
     <<"r", "r", "f">>,
     <<>>}

InvalidMethodName == "Invalid method name provided"

\* except ValueError as e, around each run
CallMethodCatches(cls) == cls = "ValueError"

\* what the run of the chosen method printed last
RunOutput == IF method = "fusion" THEN output ELSE doutput

RunIsOver == IF method = "fusion" THEN fpc = "done" ELSE dpc = "done"

DispatchInit ==
    /\ DispatchIdle
    /\ RRFIdle
    /\ FusionIdle
    /\ FormatIdle
    /\ DecompIdle

\* call_method compares the lower-cased name and starts the run of the
\* method, or prints that the name is invalid
CallMethod ==
    /\ method = "none"
    /\ \E name \in MethodNames :
          IF Lower(name) = FusionName
          THEN method' = "fusion" /\ UNCHANGED dispatch_out
          ELSE IF Lower(name) = DecompositionName
          THEN method' = "decomposition" /\ UNCHANGED dispatch_out
          ELSE method' = "invalid" /\ dispatch_out' = InvalidMethodName
    /\ UNCHANGED <<rrfVars, fusionVars, formatVars, decompVars>>

\* run is over: call_method returns, or prints the ValueError that left
\* run, or lets any other exception through
CallReturns ==
    /\ method \in {"fusion", "decomposition"}
    /\ RunIsOver
    /\ dispatch_out = ""
    /\ dispatch_out' =
          IF RunOutput.kind # "Uncaught" THEN "returned"
          ELSE IF CallMethodCatches(RunOutput.stage) THEN "Error in run"
          ELSE "exception"
    /\ UNCHANGED <<method, rrfVars, fusionVars, formatVars, decompVars>>

FusionStep == method = "fusion" /\ FusionNext

DecompositionStep == method = "decomposition" /\ DecompNext

DispatchNext == CallMethod \/ FusionStep \/ DecompositionStep \/ CallReturns

SpecDispatch == DispatchInit /\ [][DispatchNext]_vars

----------------------------------------------------------------------------
(* Claims about the dispatcher *)

CollaboratorFailures == {"LanguageModel error", "Retriever error"}

ExpandCalls(calls) == {i \in 1..Len(calls) : calls[i].purpose = "expand"}

\* C12: in a run of the fusion or the decomposition method started by
\* call_method, a failing retriever or language-model call ends the run with
\* an error message printed; the run takes no further step (the call is not
\* made again), and no exception leaves run or call_method.
C12_FailurePrintsAndStops ==
    /\ output.kind # "Uncaught"
    /\ doutput.kind # "Uncaught"
    /\ dispatch_out # "exception"
    /\ output.msg \in CollaboratorFailures =>
          /\ method = "fusion"
          /\ fpc = "done"
          /\ output.kind = "Error"
          /\ Cardinality(ExpandCalls(llm_calls)) = 1
          /\ ~ENABLED FusionStep
    /\ (dfailure # "none" \/ doutput.msg \in CollaboratorFailures) =>
          /\ method = "decomposition"
          /\ dpc = "done"
          /\ doutput.kind = "Error"
          /\ doutput.msg \in CollaboratorFailures
          /\ Cardinality(ExpandCalls(d_llm_calls)) = 1
          /\ \A i \in DOMAIN retriever_calls : retriever_calls[i] = i
          /\ ~ENABLED DecompositionStep

\* call_method("DECOMPOSITION") has returned after the retriever failed
C12_Witness ==
    /\ method = "decomposition"
    /\ dfailure = "retriever"
    /\ dpc = "done"
    /\ doutput.kind = "Error"
    /\ doutput.msg = "Retriever error"
    /\ dispatch_out = "returned"

====
